---- MODULE Spec2Model ----
(***************************************************************************)
(* Design Standards Checker: the standards evaluation engine               *)
(* (DesignStandardsChecker), its result aggregation, the asynchronous      *)
(* text-style lookups it starts, and the plugin's message handlers.        *)
(*                                                                         *)
(* The plugin runs on a single thread: a handler runs to completion and    *)
(* promise callbacks run only between handlers.  The traversal of          *)
(* runAllChecks is modelled one processNode call at a time; while a        *)
(* traversal is in progress (running # NoRun) no other handler and no      *)
(* promise callback is enabled.                                            *)
(***************************************************************************)
EXTENDS Integers, Sequences, FiniteSets, TLC

VARIABLES
    config,      \* DesignStandardsChecker.config, the live configuration
    stored,      \* figma.root plugin data 'designStandardsConfig'
    selection,   \* figma.currentPage.selection (node ids)
    selEvent,    \* a selectionchange event is waiting to be dispatched
    results,     \* every CheckResults object created by runAllChecks, in call order
    running,     \* the runAllChecks call in progress, or NoRun
    lookups,     \* the getStyleByIdAsync promises started by checkTypography
    outbox,      \* the check-results messages posted to the UI, in order
    pluginData,  \* per node: readyForDev / readyForDevTimestamp
    calls,       \* per runAllChecks call: its arguments, its caller, the nodes
                 \* visited so far, and the result as it was on return
    grid,        \* the last isOnGrid call: its argument and its result
    importing,   \* the importConfigFromTeamLibrary calls waiting at their await
    lastOp,      \* the last operation that assigned this.config, with its
                 \* argument; an update says whether an import was waiting, and
                 \* an import whether it came after such an update
    exportPreview, \* the text of the export-preview element of the UI
    thisDefaultConfig, \* DesignStandardsChecker.defaultConfig, the object as it is now
    shared,      \* the key paths at which this.config holds the very object
                 \* this.defaultConfig holds
    focuses,     \* the getNodeByIdAsync promises of 'focus-node' and 'Go to node'
    viewport     \* the node figma.viewport was last scrolled to, or NoNode

vars == <<config, stored, selection, selEvent, results, running, lookups, outbox,
          pluginData, calls, grid, importing, lastOp, exportPreview,
          thisDefaultConfig, shared, focuses, viewport>>

----------------------------------------------------------------------------
(* Bounds *)

\* number of runAllChecks calls in one behaviour
MaxEvals == 2

\* grid values range over -GridRange .. GridRange
GridRange == 20

\* number of importConfigFromTeamLibrary calls waiting at one time
MaxImports == 1

\* number of getNodeByIdAsync calls of 'focus-node' and 'Go to node' in one
\* behaviour
MaxFocuses == 1

----------------------------------------------------------------------------
(* The document: a fixed node tree owned by the host *)

NodeIds == {"P", "F", "N", "T1", "G", "T3", "R", "T2", "B"}

NoPaints == << >>

Solid(r, g, b) == [type |-> "SOLID", visible |-> TRUE, color |-> [r |-> r, g |-> g, b |-> b]]

\* colour channels are in thousandths of the [0,1] range
BaseNode ==
    [type |-> "FRAME", name |-> "", hasChildren |-> FALSE, children |-> << >>,
     hasGeometry |-> FALSE, x |-> 0, y |-> 0, width |-> 0, height |-> 0,
     hasFills |-> FALSE, fills |-> NoPaints, strokes |-> NoPaints,
     fontFamily |-> "", textStyleId |-> "",
     layoutMode |-> "NONE",
     paddingTop |-> 0, paddingRight |-> 0, paddingBottom |-> 0, paddingLeft |-> 0]

Frame(name, x, y, w, h, kids) ==
    [BaseNode EXCEPT !.type = "FRAME", !.name = name, !.hasChildren = TRUE,
        !.children = kids, !.hasGeometry = TRUE, !.x = x, !.y = y,
        !.width = w, !.height = h, !.hasFills = TRUE]

Text(name, font, style) ==
    [BaseNode EXCEPT !.type = "TEXT", !.name = name, !.hasGeometry = TRUE,
        !.x = 8, !.y = 8, !.width = 96, !.height = 16, !.hasFills = TRUE,
        !.fills = <<Solid(125, 129, 141)>>,
        !.fontFamily = font, !.textStyleId = style]

Nodes ==
    [id \in NodeIds |->
        CASE id = "P"  -> [BaseNode EXCEPT !.type = "PAGE", !.name = "Page 1",
                              !.hasChildren = TRUE, !.children = <<"F", "R", "B">>]
          [] id = "F"  -> [Frame("Screen - home", 0, 0, 328, 640, <<"N", "T1", "G">>)
                              EXCEPT !.layoutMode = "VERTICAL",
                                     !.paddingTop = 16, !.paddingRight = 16,
                                     !.paddingBottom = 16, !.paddingLeft = 12,
                                     !.fills = <<Solid(973, 976, 980)>>]
          [] id = "N"  -> [Frame("Navigation", 0, 0, 328, 56, << >>)
                              EXCEPT !.type = "INSTANCE"]
          [] id = "T1" -> Text("title", "Arial", "")
          [] id = "G"  -> [Frame("card-a", -4, 64, 100, 16, <<"T3">>)
                              EXCEPT !.type = "GROUP", !.hasFills = FALSE]
          [] id = "T3" -> Text("Form / Input", "Roboto", "")
          [] id = "R"  -> [Frame("Panel - main", 400, 0, 320, 160, <<"T2">>)
                              EXCEPT !.fills = <<Solid(102, 451, 910)>>]
          [] id = "T2" -> Text("label-one", "Roboto", "S2")
          [] id = "B"  -> [Frame("Button", 800, 0, 40, 40, << >>)
                              EXCEPT !.fills = <<Solid(1000, 0, 0),
                                                 [Solid(0, 1000, 0) EXCEPT !.visible = FALSE]>>,
                                     !.strokes = <<Solid(0, 0, 1000)>>]]

\* the names of the text styles of the document, by style id
StyleNames == [s \in {"S2"} |-> "Display/Large"]

\* the nodes the user can select
Selectable == {"F", "R"}

----------------------------------------------------------------------------
(* Strings.  The built-in string functions of the language, over the       *)
(* strings that occur in the model.                                        *)

\* <<s, t>> is here when t is a substring of s (String.prototype.includes)
SubstringPairs ==
    {<<"Button", "Button">>,
     <<"Display/Large", "Display">>,
     <<"Heading/H1", "Heading">>,
     <<"Navigation", "Navigation">>,
     <<"button", "button">>,
     <<"card-a", "card">>,
     <<"form / input", "input">>,
     <<"screen - home", "screen">>}

Includes(s, t) == <<s, t>> \in SubstringPairs

\* String.prototype.toLowerCase
ToLowerCase(s) ==
    CASE s = "Page 1" -> "page 1"
      [] s = "Screen - home" -> "screen - home"
      [] s = "Navigation" -> "navigation"
      [] s = "Form / Input" -> "form / input"
      [] s = "Panel - main" -> "panel - main"
      [] s = "Button" -> "button"
      [] OTHER -> s

\* name.split('/'): the parts of a name around its '/' separators
Split(s) == IF s = "Form / Input" THEN <<"Form ", " Input">> ELSE <<s>>

\* String.prototype.trim
Trim(s) ==
    CASE s = "Form " -> "Form"
      [] s = " Input" -> "Input"
      [] OTHER -> s

\* the elements of an array
Elems(seq) == {seq[i] : i \in 1..Len(seq)}

\* the pairs <<source, name>> for which a pattern with that source matches the name
MatchPairs ==
    {<<"^[A-Z][a-z]+ - [a-z0-9-_]+$", "Screen - home">>,
     <<"^[A-Z][a-z]+ - [a-z0-9-_]+$", "Panel - main">>,
     <<"^[A-Z][a-z]+ \\/ [A-Z][a-z]+$", "Form / Input">>,
     <<"^[a-z][a-z0-9-_]+$", "title">>,
     <<"^[a-z][a-z0-9-_]+$", "card-a">>,
     <<"^[a-z][a-z0-9-_]+$", "label-one">>,
     <<"^[A-Z].*$", "Page 1">>,
     <<"^[A-Z].*$", "Screen - home">>,
     <<"^[A-Z].*$", "Navigation">>,
     <<"^[A-Z].*$", "Form / Input">>,
     <<"^[A-Z].*$", "Panel - main">>,
     <<"^[A-Z].*$", "Button">>}

\* the pairs <<source, name>> for which a pattern with that source and the
\* i flag matches the name, and the same pattern without the flag does not
IgnoreCaseMatchPairs ==
    {<<"^[A-Z].*$", "title">>,
     <<"^[A-Z].*$", "card-a">>,
     <<"^[A-Z].*$", "label-one">>}

\* The value of a naming pattern says what kind of value it is: a RegExp
\* object, a string, or a plain object.

\* a new RegExp object: its lastIndex is 0
RegExp(source, flags) ==
    [kind |-> "RegExp", source |-> source, flags |-> flags, lastIndex |-> 0]

\* a string where a pattern is expected
Str(value) == [kind |-> "string", value |-> value]

\* a plain object where a pattern is expected: {} when spread is "", and
\* the object of the characters of a string ({...string}) otherwise
PlainObject(spread) == [kind |-> "object", spread |-> spread]

\* value instanceof RegExp
isRegExp(value) == value.kind = "RegExp"

\* the flag strings of the model that hold the g or the y flag: test()
\* starts its search at lastIndex and sets lastIndex
StatefulFlags == {"g", "y"}

\* pattern.test(name).  Every pattern of the model begins with ^, ends with
\* $ and has no m flag: a match starts at index 0 and ends at the end of
\* the name, so a search that starts at a lastIndex above 0 finds none.
RegExpTest(pattern, name) ==
    /\ pattern.flags \in StatefulFlags => pattern.lastIndex = 0
    /\ \/ <<pattern.source, name>> \in MatchPairs
       \/ pattern.flags = "i" /\ <<pattern.source, name>> \in IgnoreCaseMatchPairs

\* the pattern after pattern.test(name): with the g or the y flag,
\* lastIndex is the end of the match, or 0 after a failed search
RegExpAfterTest(pattern, name) ==
    IF pattern.flags \in StatefulFlags
        THEN [pattern EXCEPT !.lastIndex = IF RegExpTest(pattern, name) THEN Len(name) ELSE 0]
        ELSE pattern

\* patternStr.match(/^\/(.*)\/([gimuy]*)$/) for the strings of the model:
\* the groups <<pattern, flags>> of the strings that match
EncodingMatches ==
    [s \in {"/^[A-Z][a-z]+ - [a-z0-9-_]+$/",
            "/^[A-Z][a-z]+ \\/ [A-Z][a-z]+$/",
            "/^[a-z][a-z0-9-_]+$/",
            "/^[A-Z].*$/i",
            "/(/",
            "/^[a-z]+$/gg",
            "/^[A-Z][a-z]+ - [a-z0-9-_]+$/g"} |->
        CASE s = "/^[A-Z][a-z]+ - [a-z0-9-_]+$/" -> <<"^[A-Z][a-z]+ - [a-z0-9-_]+$", "">>
          [] s = "/^[A-Z][a-z]+ \\/ [A-Z][a-z]+$/" -> <<"^[A-Z][a-z]+ \\/ [A-Z][a-z]+$", "">>
          [] s = "/^[a-z][a-z0-9-_]+$/" -> <<"^[a-z][a-z0-9-_]+$", "">>
          [] s = "/^[A-Z].*$/i" -> <<"^[A-Z].*$", "i">>
          [] s = "/(/" -> <<"(", "">>
          [] s = "/^[a-z]+$/gg" -> <<"^[a-z]+$", "gg">>
          [] s = "/^[A-Z][a-z]+ - [a-z0-9-_]+$/g" -> <<"^[A-Z][a-z]+ - [a-z0-9-_]+$", "g">>]

\* the pattern texts and the flag strings new RegExp() throws a SyntaxError for
InvalidPatternTexts == {"(", "[a-z"}

InvalidFlags == {"gg"}

----------------------------------------------------------------------------
(* Configuration *)

defaultConfig ==
    [colors |->
        [allowedColors |-> <<"#1A73E8", "#4285F4", "#34A853", "#FBBC04",
                             "#EA4335", "#F8F9FA", "#202124">>,
         tolerance |-> 0],
     typography |->
        [allowedFonts |-> <<"Roboto", "Product Sans", "Google Sans">>,
         textStyles |-> <<"Heading", "Body", "Caption", "Button">>],
     spacing |-> [baseUnit |-> 8, tolerancePercent |-> 5],
     components |->
        [requiredComponents |->
            [screen |-> <<"Navigation", "StatusBar">>, card |-> <<"Shadow", "Title">>],
         mustBeInstances |-> <<"Button", "Input", "Checkbox", "Radio", "Toggle", "Dropdown">>],
     naming |->
        [patterns |->
            [frames |-> RegExp("^[A-Z][a-z]+ - [a-z0-9-_]+$", ""),
             components |-> RegExp("^[A-Z][a-z]+ \\/ [A-Z][a-z]+$", ""),
             layers |-> RegExp("^[a-z][a-z0-9-_]+$", "")]],
     \* minContrastRatio is in tenths (4.5)
     accessibility |-> [minContrastRatio |-> 45, interactiveElementMinSize |-> 44]]

\* the key paths whose values are plain objects in every configuration and
\* partial of the model
ObjectKeys ==
    {<< >>, <<"colors">>, <<"typography">>, <<"spacing">>, <<"components">>,
     <<"components", "requiredComponents">>, <<"naming">>, <<"naming", "patterns">>,
     <<"accessibility">>}

PatternNames == {"frames", "components", "layers"}

\* the key paths of the three naming patterns
PatternKeys == {<<"naming", "patterns", k>> : k \in PatternNames}

\* isObject(item) for the value item found at a key path: a value under
\* naming.patterns says its kind (a RegExp is an object that is no array),
\* and elsewhere the path decides (arrays, strings and numbers are no objects)
isObject(path, item) ==
    IF path \in PatternKeys THEN item.kind \in {"RegExp", "object"}
    ELSE path \in ObjectKeys

\* { ...target } for a pattern value: a RegExp has no own enumerable
\* property, a string has its characters
SpreadPattern(target) ==
    CASE target.kind = "RegExp" -> PlainObject("")
      [] target.kind = "string" -> PlainObject(target.value)
      [] target.kind = "object" -> target

RECURSIVE deepMergeKeys(_, _, _, _, _)
RECURSIVE deepMerge(_, _, _)

\* the forEach over Object.keys(source), for the keys still to do
deepMergeKeys(path, target, output, source, keys) ==
    IF keys = {} THEN output
    ELSE LET key == CHOOSE k \in keys : TRUE
             merged ==
                IF isObject(Append(path, key), source[key]) /\ key \in DOMAIN target
                    THEN deepMerge(Append(path, key), target[key], source[key])
                    ELSE source[key]
             out == [k \in DOMAIN output \cup {key} |->
                        IF k = key THEN merged ELSE output[k]]
         IN  deepMergeKeys(path, target, out, source, keys \ {key})

\* deepMerge that merges into spacing from the default spacing, not from
\* the target's
deepMergeFromDefault(path, target, source) ==
    IF path \in PatternKeys THEN SpreadPattern(target)
    ELSE IF path = <<"spacing">>
        THEN deepMergeKeys(path, defaultConfig.spacing, defaultConfig.spacing,
                           source, DOMAIN source)
        ELSE deepMergeKeys(path, target, target, source, DOMAIN source)

\* deepMerge(target, source) for the values found at a key path.  The
\* object values a partial of the model holds for a pattern (a RegExp, {})
\* have no own enumerable keys: the forEach has nothing to copy and the
\* result is { ...target }.
deepMerge(path, target, source) ==
    IF path \in PatternKeys THEN SpreadPattern(target)
    ELSE deepMergeKeys(path, target, target, source, DOMAIN source)

\* RegExp.prototype.toString
RegExpToString(pattern) == "/" \o pattern.source \o "/" \o pattern.flags

\* JSON.parse(JSON.stringify(config)) with each naming pattern that is a
\* RegExp replaced by its string: what saveConfigToDocument stringifies and
\* what exportCurrentConfig stringifies.  A pattern that is no RegExp is a
\* string or a plain object and is kept by the JSON copy.
Serialize(cfg) ==
    [cfg EXCEPT !.naming.patterns =
        [k \in PatternNames |->
            IF isRegExp(cfg.naming.patterns[k])
                THEN Str(RegExpToString(cfg.naming.patterns[k]))
                ELSE cfg.naming.patterns[k]]]

\* new RegExp(pattern, flags)
SyntaxError == [kind |-> "SyntaxError"]

NewRegExp(pattern, flags) ==
    IF pattern \in InvalidPatternTexts \/ flags \in InvalidFlags
        THEN SyntaxError
        ELSE RegExp(pattern, flags)

\* one of the three 'Handle ... pattern' blocks of loadConfigFromDocument
decodePattern(value) ==
    IF value.kind = "string" /\ value.value \in DOMAIN EncodingMatches
        THEN NewRegExp(EncodingMatches[value.value][1], EncodingMatches[value.value][2])
        ELSE value

\* the text the plugin data holds when it is no JSON text
BadJson == [syntaxError |-> TRUE]

NoConfig == [null |-> TRUE]

NoBlob == [absent |-> TRUE]

\* the configuration loadConfigFromDocument returns for the plugin data
\* blob, or NoConfig (null).  JSON.parse and new RegExp throw inside the
\* try block, and the catch block falls through to return null.
loadConfigFromDocument(blob) ==
    IF blob = NoBlob \/ blob = BadJson THEN NoConfig
    ELSE LET decoded == [k \in PatternNames |-> decodePattern(blob.naming.patterns[k])]
         IN  IF \E k \in PatternNames : decoded[k] = SyntaxError
                THEN NoConfig
                ELSE [blob EXCEPT !.naming.patterns = decoded]

\* this.config = this.loadConfigFromDocument() || {...this.defaultConfig}
constructor(blob) ==
    IF loadConfigFromDocument(blob) = NoConfig
        THEN defaultConfig
        ELSE loadConfigFromDocument(blob)

\* the key paths of the objects this.defaultConfig holds below its root
SharedPaths == (ObjectKeys \ {<< >>}) \cup PatternKeys

\* the key paths at which the configuration the constructor assigns holds
\* objects of this.defaultConfig: all of them when it is the shallow copy
\* { ...this.defaultConfig }, none when it was parsed from the blob
constructorShares(blob) ==
    IF loadConfigFromDocument(blob) = NoConfig THEN SharedPaths ELSE {}

\* deepMerge whose output is a new object at the root only, and the target
\* itself below it
outputIsNewAtRoot(path) == path = << >>

\* const output = { ...target }: the object the deepMerge call at a key
\* path writes to is a new one, never the target
outputIsNew(path) == TRUE

IsPrefix(r, q) == Len(r) <= Len(q) /\ SubSeq(q, 1, Len(r)) = r

Parent(path) == SubSeq(path, 1, Len(path) - 1)

RECURSIVE mergedPaths(_, _, _)

\* the key paths at which deepMerge(target, source) is called, the path of
\* the first call included
mergedPaths(path, target, source) ==
    IF path \in PatternKeys THEN {path}
    ELSE {path} \cup
         UNION {mergedPaths(Append(path, key), target[key], source[key]) :
                  key \in {k \in DOMAIN source :
                              isObject(Append(path, k), source[k]) /\ k \in DOMAIN target}}

RECURSIVE assignedPaths(_, _, _)

\* the key paths at which deepMerge(target, source) assigns the value of
\* the source to its output
assignedPaths(path, target, source) ==
    IF path \in PatternKeys THEN {}
    ELSE UNION {IF isObject(Append(path, key), source[key]) /\ key \in DOMAIN target
                    THEN assignedPaths(Append(path, key), target[key], source[key])
                    ELSE {Append(path, key)} : key \in DOMAIN source}

RECURSIVE deepMergeWrites(_, _, _, _)

\* what the object of this.defaultConfig at a key path holds after the
\* deepMerge(target, source) call at that path: a call whose output is the
\* target writes to the object of this.defaultConfig when the target is
\* that object
deepMergeWrites(path, dflt, target, source) ==
    IF path \in shared /\ ~outputIsNew(path)
        THEN deepMerge(path, target, source)
        ELSE [k \in DOMAIN dflt |->
                IF /\ k \in DOMAIN source
                   /\ k \in DOMAIN target
                   /\ Append(path, k) \in ObjectKeys
                    THEN deepMergeWrites(Append(path, k), dflt[k], target[k], source[k])
                    ELSE dflt[k]]

\* the key paths at which the result of deepMerge(target, source) still
\* holds the object of this.defaultConfig: not where the output is a new
\* object, and not at or below a value assigned from the source
deepMergeShares(target, source) ==
    IF shared = {} THEN {}
    ELSE LET merged == mergedPaths(<< >>, target, source)
             assigned == assignedPaths(<< >>, target, source)
         IN  {q \in shared :
                /\ ~(q \in merged /\ outputIsNew(q))
                /\ ~\E r \in assigned :
                        /\ IsPrefix(r, q)
                        /\ ~(Parent(r) \in shared /\ ~outputIsNew(Parent(r)))}

\* the text exportCurrentConfig returns, as the value it is the JSON text of
exportCurrentConfig(cfg) == Serialize(cfg)

----------------------------------------------------------------------------
(* Results *)

Categories == {"color", "typography", "spacing", "components", "naming", "accessibility"}

\* the object runAllChecks creates
NewResults ==
    [passed |-> TRUE, issues |-> << >>,
     stats |-> [nodesChecked |-> 0, issuesFound |-> 0, categoryCounts |-> << >>]]

\* addIssue without the assignment results.passed = false
addIssueKeepsPassed(res, category, message, nodeId) ==
    [passed |-> res.passed,
     issues |-> Append(res.issues,
                  [category |-> category, message |-> message, nodeId |-> nodeId]),
     stats |-> [nodesChecked |-> res.stats.nodesChecked,
                issuesFound |-> res.stats.issuesFound + 1,
                categoryCounts |->
                    IF category \in DOMAIN res.stats.categoryCounts
                        THEN [res.stats.categoryCounts EXCEPT ![category] = @ + 1]
                        ELSE (category :> 1) @@ res.stats.categoryCounts]]

\* addIssue that sets the category's count to zero on every call
addIssueResetsCount(res, category, message, nodeId) ==
    [passed |-> FALSE,
     issues |-> Append(res.issues,
                  [category |-> category, message |-> message, nodeId |-> nodeId]),
     stats |-> [nodesChecked |-> res.stats.nodesChecked,
                issuesFound |-> res.stats.issuesFound + 1,
                categoryCounts |->
                    IF category \in DOMAIN res.stats.categoryCounts
                        THEN [res.stats.categoryCounts EXCEPT ![category] = 1]
                        ELSE (category :> 1) @@ res.stats.categoryCounts]]

addIssue(res, category, message, nodeId) ==
    LET counts == res.stats.categoryCounts
        zeroed == IF category \notin DOMAIN counts
                    THEN (category :> 0) @@ counts
                    ELSE IF counts[category] = 0
                            THEN [counts EXCEPT ![category] = 0]
                            ELSE counts
    IN  [passed |-> FALSE,
         issues |-> Append(res.issues,
                      [category |-> category, message |-> message, nodeId |-> nodeId]),
         stats |-> [nodesChecked |-> res.stats.nodesChecked,
                    issuesFound |-> res.stats.issuesFound + 1,
                    categoryCounts |-> [zeroed EXCEPT ![category] = @ + 1]]]

----------------------------------------------------------------------------
(* Helper functions of the checker *)

HexDigits == <<"0", "1", "2", "3", "4", "5", "6", "7", "8", "9",
               "A", "B", "C", "D", "E", "F">>

\* Math.round(value * 255) for a channel given in thousandths, as two
\* upper-case hexadecimal digits
toHex(value) ==
    LET n == (value * 255 + 500) \div 1000
    IN  HexDigits[(n \div 16) + 1] \o HexDigits[(n % 16) + 1]

rgbToHex(r, g, b) == "#" \o toHex(r) \o toHex(g) \o toHex(b)

isColorAllowed(color) == color \in Elems(config.colors.allowedColors)

\* the % operator on numbers: the result has the sign of the dividend
Rem(a, b) == IF a >= 0 THEN a % b ELSE 0 - ((0 - a) % b)

\* tolerance is gridUnit * tolerancePercent / 100: both comparisons are
\* made on values multiplied by 100
isOnGrid(value) ==
    LET gridUnit == config.spacing.baseUnit
        tolerance100 == gridUnit * config.spacing.tolerancePercent
        remainder == Rem(value, gridUnit)
    IN  remainder * 100 <= tolerance100 \/ (gridUnit - remainder) * 100 <= tolerance100

NoFrameType == "null"

getFrameType(name) ==
    LET lowerName == ToLowerCase(name)
    IN  IF Includes(lowerName, "screen") THEN "screen"
        ELSE IF Includes(lowerName, "card") THEN "card"
        ELSE NoFrameType

getComponentName(name) ==
    LET parts == Split(name)
    IN  IF Len(parts) > 1 THEN Trim(parts[Len(parts)]) ELSE name

RECURSIVE hasComponentNamedFrom(_, _, _)
RECURSIVE hasComponentNamed(_, _)

\* the for loop of hasComponentNamed, from child number i on
hasComponentNamedFrom(id, componentName, i) ==
    LET node == Nodes[id]
    IN  IF i > Len(node.children) THEN FALSE
        ELSE LET child == node.children[i]
             IN  IF Includes(Nodes[child].name, componentName) THEN TRUE
                 ELSE IF Nodes[child].hasChildren /\ hasComponentNamed(child, componentName)
                        THEN TRUE
                 ELSE hasComponentNamedFrom(id, componentName, i + 1)

hasComponentNamed(id, componentName) ==
    IF ~Nodes[id].hasChildren THEN FALSE
    ELSE hasComponentNamedFrom(id, componentName, 1)

NoColor == "null"

getNodeColor(id) ==
    LET node == Nodes[id]
    IN  IF node.hasFills /\ Len(node.fills) > 0
            THEN LET fill == node.fills[1]
                 IN  IF fill.type = "SOLID" /\ fill.visible
                        THEN rgbToHex(fill.color.r, fill.color.g, fill.color.b)
                        ELSE NoColor
            ELSE NoColor

hasAdequateContrast(color1, color2) == TRUE

interactiveKeywords == <<"button", "link", "input", "toggle", "checkbox", "radio">>

isInteractiveElement(id) ==
    \E i \in 1..Len(interactiveKeywords) :
        Includes(ToLowerCase(Nodes[id].name), interactiveKeywords[i])

----------------------------------------------------------------------------
(* The six checkers.  Each takes the results object and gives it back      *)
(* with the issues of one node added.                                      *)

RECURSIVE checkPaints(_, _, _, _)

\* one of the two for loops of checkColors, over the paints still to do
checkPaints(id, res, paints, prefix) ==
    IF paints = << >> THEN res
    ELSE LET paint == Head(paints)
             color == rgbToHex(paint.color.r, paint.color.g, paint.color.b)
             res1 == IF paint.type = "SOLID" /\ paint.visible /\ ~isColorAllowed(color)
                        THEN addIssue(res, "color",
                                prefix \o color \o " used in " \o Nodes[id].name, id)
                        ELSE res
         IN  checkPaints(id, res1, Tail(paints), prefix)

checkColors(id, res) ==
    LET node == Nodes[id]
        res1 == IF node.hasFills
                    THEN checkPaints(id, res, node.fills, "Non-standard color ")
                    ELSE res
    IN  IF node.hasFills
            THEN checkPaints(id, res1, node.strokes, "Non-standard stroke color ")
            ELSE res1

StyleNameMessage(id, styleName) ==
    "Text \"" \o Nodes[id].name \o "\" uses non-standard text style \""
        \o styleName \o "\""

StyleErrorMessage(id) ==
    "Error checking text style for \"" \o Nodes[id].name \o "\""

\* checkTypography starts a style lookup for this node
startsLookup(id) == Nodes[id].type = "TEXT" /\ Nodes[id].textStyleId # ""

\* checkTypography that has the style's name at hand and checks it at once
checkTypographyInline(id, res) ==
    LET node == Nodes[id]
        res1 == IF node.fontFamily # ""
                   /\ node.fontFamily \notin Elems(config.typography.allowedFonts)
                    THEN addIssue(res, "typography",
                            "Non-standard font \"" \o node.fontFamily
                                \o "\" used in \"" \o node.name \o "\"", id)
                    ELSE res
    IN  IF node.type # "TEXT" THEN res
        ELSE IF node.textStyleId = ""
            THEN addIssue(res1, "typography",
                    "Text \"" \o node.name \o "\" is not using any text style", id)
            ELSE IF \E i \in 1..Len(config.typography.textStyles) :
                        Includes(StyleNames[node.textStyleId], config.typography.textStyles[i])
                    THEN res1
                    ELSE addIssue(res1, "typography",
                            StyleNameMessage(id, StyleNames[node.textStyleId]), id)

\* the part of checkTypography that runs during the traversal
checkTypography(id, res) ==
    LET node == Nodes[id]
        res1 == IF node.fontFamily # ""
                   /\ node.fontFamily \notin Elems(config.typography.allowedFonts)
                    THEN addIssue(res, "typography",
                            "Non-standard font \"" \o node.fontFamily
                                \o "\" used in \"" \o node.name \o "\"", id)
                    ELSE res
    IN  IF node.type # "TEXT" THEN res
        ELSE IF node.textStyleId = ""
            THEN addIssue(res1, "typography",
                    "Text \"" \o node.name \o "\" is not using any text style", id)
            ELSE res1

\* the callback given to then(): textStyle is the style the lookup resolved to
NoStyle == "null"

\* a then() callback that reports nothing
lookupResolvedSilent(id, res, textStyle) == res

\* a then() callback that looks for the style name in the text styles of
\* the default configuration
lookupResolvedByDefault(id, res, textStyle) ==
    IF textStyle # NoStyle
        THEN LET isValidStyle ==
                    \E i \in 1..Len(defaultConfig.typography.textStyles) :
                        Includes(textStyle, defaultConfig.typography.textStyles[i])
             IN  IF ~isValidStyle
                    THEN addIssue(res, "typography", StyleNameMessage(id, textStyle), id)
                    ELSE res
        ELSE res

lookupResolved(id, res, textStyle) ==
    IF textStyle # NoStyle
        THEN LET isValidStyle ==
                    \E i \in 1..Len(config.typography.textStyles) :
                        Includes(textStyle, config.typography.textStyles[i])
             IN  IF ~isValidStyle
                    THEN addIssue(res, "typography", StyleNameMessage(id, textStyle), id)
                    ELSE res
        ELSE res

\* a catch() callback that only logs
lookupRejectedSilent(id, res) == res

\* the callback given to catch()
lookupRejected(id, res) ==
    addIssue(res, "typography", StyleErrorMessage(id), id)

gridIssue(id, res, value, message) ==
    IF ~isOnGrid(value) THEN addIssue(res, "spacing", message, id) ELSE res

checkSpacing(id, res) ==
    LET node == Nodes[id]
        nm == node.name
        r1 == gridIssue(id, res, node.x,
                nm \o " X position (" \o ToString(node.x) \o ") is not on grid")
        r2 == gridIssue(id, r1, node.y,
                nm \o " Y position (" \o ToString(node.y) \o ") is not on grid")
        r3 == gridIssue(id, r2, node.width,
                nm \o " width (" \o ToString(node.width) \o ") is not on grid")
        r4 == gridIssue(id, r3, node.height,
                nm \o " height (" \o ToString(node.height) \o ") is not on grid")
        r5 == gridIssue(id, r4, node.paddingTop,
                nm \o " has non-standard top padding (" \o ToString(node.paddingTop) \o ")")
        r6 == gridIssue(id, r5, node.paddingRight,
                nm \o " has non-standard right padding (" \o ToString(node.paddingRight) \o ")")
        r7 == gridIssue(id, r6, node.paddingBottom,
                nm \o " has non-standard bottom padding (" \o ToString(node.paddingBottom) \o ")")
        r8 == gridIssue(id, r7, node.paddingLeft,
                nm \o " has non-standard left padding (" \o ToString(node.paddingLeft) \o ")")
    IN  IF node.type \in {"FRAME", "GROUP", "COMPONENT", "INSTANCE"}
            THEN IF node.type = "FRAME" /\ node.layoutMode # "NONE" THEN r8 ELSE r4
            ELSE res

RECURSIVE checkRequiredUnsearched(_, _, _)

\* the for loop over requiredComponents without the search of the subtree
checkRequiredUnsearched(id, res, required) ==
    IF required = << >> THEN res
    ELSE LET requiredComponent == Head(required)
             hasComponent == Nodes[id].hasChildren
             res1 == IF ~hasComponent
                        THEN addIssue(res, "components",
                                Nodes[id].name \o " is missing required component: "
                                    \o requiredComponent, id)
                        ELSE res
         IN  checkRequiredUnsearched(id, res1, Tail(required))

RECURSIVE checkRequired(_, _, _)

\* the for loop over requiredComponents, over the names still to do
checkRequired(id, res, required) ==
    IF required = << >> THEN res
    ELSE LET requiredComponent == Head(required)
             hasComponent == Nodes[id].hasChildren
                                /\ hasComponentNamed(id, requiredComponent)
             res1 == IF ~hasComponent
                        THEN addIssue(res, "components",
                                Nodes[id].name \o " is missing required component: "
                                    \o requiredComponent, id)
                        ELSE res
         IN  checkRequired(id, res1, Tail(required))

checkComponents(id, res) ==
    LET node == Nodes[id]
        frameType == getFrameType(node.name)
        res1 == IF node.type = "FRAME" /\ frameType # NoFrameType
                   /\ frameType \in DOMAIN config.components.requiredComponents
                    THEN checkRequired(id, res,
                            config.components.requiredComponents[frameType])
                    ELSE res
        componentName == getComponentName(node.name)
    IN  IF componentName # ""
           /\ componentName \in Elems(config.components.mustBeInstances)
           /\ node.type # "INSTANCE" /\ node.type # "COMPONENT"
            THEN addIssue(res1, "components",
                    node.name \o " should be a component instance", id)
            ELSE res1

\* the naming pattern checkNaming calls test() on for a node of this type
patternOf(type) ==
    CASE type = "FRAME" -> config.naming.patterns.frames
      [] type \in {"COMPONENT", "INSTANCE"} -> config.naming.patterns.components
      [] OTHER -> config.naming.patterns.layers

\* the key of that pattern in naming.patterns
patternKeyOf(type) ==
    CASE type = "FRAME" -> "frames"
      [] type \in {"COMPONENT", "INSTANCE"} -> "components"
      [] OTHER -> "layers"

\* a configuration object after checkNaming has called test() on its
\* pattern for the node
checkNamingTested(cfg, id) ==
    [cfg EXCEPT !.naming.patterns[patternKeyOf(Nodes[id].type)] =
        RegExpAfterTest(@, Nodes[id].name)]

\* checkNaming throws a TypeError: the value it calls test() on is no RegExp
\* and has no test method
checkNamingThrows(id) == ~isRegExp(patternOf(Nodes[id].type))

\* checkNaming that tests every node against the layers pattern as well
checkNamingLayersToo(id, res) ==
    LET node == Nodes[id]
        res1 == IF node.type = "FRAME"
                   /\ ~RegExpTest(config.naming.patterns.frames, node.name)
                    THEN addIssue(res, "naming",
                            "Frame \"" \o node.name
                                \o "\" doesn't follow naming convention", id)
                    ELSE res
        res2 == IF node.type \in {"COMPONENT", "INSTANCE"}
                   /\ ~RegExpTest(config.naming.patterns.components, node.name)
                    THEN addIssue(res1, "naming",
                            "Component \"" \o node.name
                                \o "\" doesn't follow naming convention", id)
                    ELSE res1
    IN  IF ~RegExpTest(config.naming.patterns.layers, node.name)
            THEN addIssue(res2, "naming",
                    "Layer \"" \o node.name \o "\" doesn't follow naming convention", id)
            ELSE res2

checkNaming(id, res) ==
    LET node == Nodes[id]
        res1 == IF node.type = "FRAME"
                   /\ ~RegExpTest(config.naming.patterns.frames, node.name)
                    THEN addIssue(res, "naming",
                            "Frame \"" \o node.name
                                \o "\" doesn't follow naming convention", id)
                    ELSE res
        res2 == IF node.type \in {"COMPONENT", "INSTANCE"}
                   /\ ~RegExpTest(config.naming.patterns.components, node.name)
                    THEN addIssue(res1, "naming",
                            "Component \"" \o node.name
                                \o "\" doesn't follow naming convention", id)
                    ELSE res1
    IN  IF node.type \notin {"FRAME", "COMPONENT", "INSTANCE"}
           /\ ~RegExpTest(config.naming.patterns.layers, node.name)
            THEN addIssue(res2, "naming",
                    "Layer \"" \o node.name \o "\" doesn't follow naming convention", id)
            ELSE res2

checkAccessibility(id, res) ==
    LET node == Nodes[id]
        textColor == getNodeColor(id)
        res1 == IF node.type = "TEXT" /\ node.hasFills
                   /\ textColor # NoColor /\ ~hasAdequateContrast(textColor, "#FFFFFF")
                    THEN addIssue(res, "accessibility",
                            "Text \"" \o node.name \o "\" has insufficient contrast", id)
                    ELSE res
    IN  IF isInteractiveElement(id) /\ node.hasGeometry
           /\ (node.width < config.accessibility.interactiveElementMinSize
                \/ node.height < config.accessibility.interactiveElementMinSize)
            THEN addIssue(res1, "accessibility",
                    "Interactive element \"" \o node.name \o "\" ("
                        \o ToString(node.width) \o "x" \o ToString(node.height)
                        \o ") is too small for touch targets", id)
            ELSE res1

\* processNode with checkNaming called before checkSpacing
visitNodeNamingFirst(id, res) ==
    LET counted == [res EXCEPT !.stats.nodesChecked = @ + 1]
    IN  checkAccessibility(id,
            checkComponents(id,
                checkSpacing(id,
                    checkNaming(id,
                        checkTypography(id,
                            checkColors(id, counted))))))

\* the body of processNode up to the loop over the children
visitNode(id, res) ==
    LET counted == [res EXCEPT !.stats.nodesChecked = @ + 1]
    IN  checkAccessibility(id,
            checkNaming(id,
                checkComponents(id,
                    checkSpacing(id,
                        checkTypography(id,
                            checkColors(id, counted))))))

\* the body of processNode up to the call of checkNaming that throws
visitNodeToThrow(id, res) ==
    LET counted == [res EXCEPT !.stats.nodesChecked = @ + 1]
    IN  checkComponents(id,
            checkSpacing(id,
                checkTypography(id,
                    checkColors(id, counted))))

----------------------------------------------------------------------------
(* State after construction: no stored blob, so the checker starts from    *)
(* the default configuration; nothing is selected.                         *)

NoRun == [eval |-> 0]

NoData == [readyForDev |-> "", readyForDevTimestamp |-> ""]

NoProbe == [called |-> FALSE]

\* new DesignStandardsChecker() was the last to assign this.config
Constructed == [op |-> "construct"]

\* figma.viewport has not been scrolled to a node
NoNode == "none"

\* the export-preview element is empty
NoText == [empty |-> TRUE]

\* new Date().toISOString()
Now == "2024-01-01T00:00:00.000Z"

Init ==
    /\ config = defaultConfig
    /\ stored = NoBlob
    /\ selection = << >>
    /\ selEvent = FALSE
    /\ results = << >>
    /\ running = NoRun
    /\ lookups = << >>
    /\ outbox = << >>
    /\ pluginData = [id \in NodeIds |-> NoData]
    /\ calls = << >>
    /\ grid = NoProbe
    /\ importing = 0
    /\ lastOp = Constructed
    /\ exportPreview = NoText
    /\ thisDefaultConfig = defaultConfig
    /\ shared = constructorShares(stored)
    /\ focuses = << >>
    /\ viewport = NoNode

----------------------------------------------------------------------------
(* runAllChecks *)

\* the call runAllChecks(node, isDeepCheck) made by a handler: the results
\* object is created and processNode is about to be called on the node
runAllChecks(id, isDeepCheck, caller) ==
    /\ Len(results) < MaxEvals
    /\ results' = Append(results, NewResults)
    /\ running' = [eval |-> Len(results) + 1, todo |-> <<id>>]
    /\ calls' = Append(calls, [root |-> id, deep |-> isDeepCheck, caller |-> caller,
                               visited |-> << >>, returned |-> FALSE,
                               threw |-> FALSE,
                               retPassed |-> TRUE, retLen |-> 0])

\* processNode that recurses whatever isDeepCheck is
childrenAlways(id, isDeepCheck) ==
    IF Nodes[id].hasChildren THEN Nodes[id].children ELSE << >>

\* the children processNode recurses into
childrenToProcess(id, isDeepCheck) ==
    IF isDeepCheck /\ Nodes[id].hasChildren THEN Nodes[id].children ELSE << >>

\* one call of processNode: the node is counted and checked, and its
\* children are processed before the rest of the nodes waiting.  When
\* checkNaming throws, the exception leaves processNode, runAllChecks and
\* the handler that called it (none of them catches it): the results object
\* is left as it was at the throw and is never returned.
processNode ==
    /\ running # NoRun
    /\ running.todo # << >>
    /\ LET id == Head(running.todo)
           e == running.eval
       IN  /\ results' = [results EXCEPT ![e] =
                            IF checkNamingThrows(id) THEN visitNodeToThrow(id, @)
                                                     ELSE visitNode(id, @)]
           /\ lookups' = IF startsLookup(id)
                            THEN Append(lookups, [eval |-> e, node |-> id,
                                                  status |-> "pending",
                                                  atCall |-> config.typography.textStyles,
                                                  textStyles |-> << >>])
                            ELSE lookups
           /\ running' = IF checkNamingThrows(id) THEN NoRun
                         ELSE [running EXCEPT
                                !.todo = childrenToProcess(id, calls[e].deep) \o Tail(@)]
           /\ calls' = [calls EXCEPT ![e].visited = Append(@, id),
                                     ![e].threw = checkNamingThrows(id)]
           /\ config' = IF checkNamingThrows(id) THEN config
                                                 ELSE checkNamingTested(config, id)
           /\ thisDefaultConfig' =
                IF <<"naming", "patterns", patternKeyOf(Nodes[id].type)>> \in shared
                    THEN checkNamingTested(thisDefaultConfig, id)
                    ELSE thisDefaultConfig
    /\ UNCHANGED <<stored, selection, selEvent, outbox, pluginData, grid, importing, lastOp, exportPreview>>
    /\ UNCHANGED <<shared, focuses, viewport>>

showResults(res, e) ==
    outbox' = Append(outbox, [type |-> "check-results", results |-> res, eval |-> e])

\* a 'check-ready-for-dev' that marks whatever the result is
readyToMarkAlways(res) == TRUE

\* the test of 'check-ready-for-dev' that decides the marking
readyToMark(res) == res.passed

\* runAllChecks returns and the handler that called it runs to its end
handlerReturn ==
    /\ running # NoRun
    /\ running.todo = << >>
    /\ LET e == running.eval
           res == results[e]
           call == calls[e]
       IN  /\ CASE call.caller = "run-check" ->
                    /\ showResults(res, e)
                    /\ UNCHANGED pluginData
                [] call.caller = "check-ready-for-dev" ->
                    IF readyToMark(res)
                        THEN /\ pluginData' = [pluginData EXCEPT ![call.root] =
                                    [readyForDev |-> "true",
                                     readyForDevTimestamp |-> Now]]
                             /\ UNCHANGED outbox
                        ELSE /\ showResults(res, e)
                             /\ UNCHANGED pluginData
                [] call.caller = "selectionchange" ->
                    IF ~res.passed
                        THEN /\ showResults(res, e)
                             /\ UNCHANGED pluginData
                        ELSE UNCHANGED <<outbox, pluginData>>
           /\ calls' = [calls EXCEPT ![e].returned = TRUE,
                                     ![e].retPassed = res.passed,
                                     ![e].retLen = Len(res.issues)]
    /\ running' = NoRun
    /\ UNCHANGED <<config, stored, selection, selEvent, results, lookups, grid, importing, lastOp, exportPreview>>
    /\ UNCHANGED <<thisDefaultConfig, shared, focuses, viewport>>

----------------------------------------------------------------------------
(* Message handlers *)

\* 'run-check' with msg.deep = deep
onRunCheck(deep) ==
    /\ running = NoRun
    /\ runAllChecks(IF Len(selection) > 0 THEN selection[1] ELSE "P", deep, "run-check")
    /\ UNCHANGED <<config, stored, selection, selEvent, lookups, outbox, pluginData, grid, importing, lastOp, exportPreview>>
    /\ UNCHANGED <<thisDefaultConfig, shared, focuses, viewport>>

\* 'check-ready-for-dev'
onCheckReadyForDev ==
    /\ running = NoRun
    /\ IF Len(selection) > 0
        THEN runAllChecks(selection[1], TRUE, "check-ready-for-dev")
        ELSE UNCHANGED <<results, running, calls>>
    /\ UNCHANGED <<config, stored, selection, selEvent, lookups, outbox, pluginData, grid, importing, lastOp, exportPreview>>
    /\ UNCHANGED <<thisDefaultConfig, shared, focuses, viewport>>

\* the user changes the selection in the document
hostSelect(sel) ==
    /\ running = NoRun
    /\ sel # selection
    /\ selection' = sel
    /\ selEvent' = TRUE
    /\ UNCHANGED <<config, stored, results, running, lookups, outbox, pluginData,
                   calls, grid, importing, lastOp, exportPreview>>
    /\ UNCHANGED <<thisDefaultConfig, shared, focuses, viewport>>

\* a selectionchange handler that would not look at the readyForDev marker
onSelectionChangeUnmarked ==
    /\ running = NoRun
    /\ selEvent
    /\ IF Len(selection) = 1
        THEN runAllChecks(selection[1], FALSE, "selectionchange")
        ELSE UNCHANGED <<results, running, calls>>
    /\ selEvent' = FALSE
    /\ UNCHANGED <<config, stored, selection, lookups, outbox, pluginData, grid, importing, lastOp, exportPreview>>
    /\ UNCHANGED <<thisDefaultConfig, shared, focuses, viewport>>

\* figma.on("selectionchange")
onSelectionChange ==
    /\ running = NoRun
    /\ selEvent
    /\ IF Len(selection) = 1
        THEN IF pluginData[selection[1]].readyForDev = "true"
                THEN UNCHANGED <<results, running, calls>>
                ELSE runAllChecks(selection[1], FALSE, "selectionchange")
        ELSE UNCHANGED <<results, running, calls>>
    /\ selEvent' = FALSE
    /\ UNCHANGED <<config, stored, selection, lookups, outbox, pluginData, grid, importing, lastOp, exportPreview>>
    /\ UNCHANGED <<thisDefaultConfig, shared, focuses, viewport>>

\* figma.getNodeByIdAsync(nodeId) is called by 'focus-node' or by the
\* 'Go to node' button (via says which): its promise is pending
getNodeByIdAsync(nodeId, via) ==
    /\ Len(focuses) < MaxFocuses
    /\ focuses' = Append(focuses, [nodeId |-> nodeId, via |-> via,
                                   status |-> "pending", notified |-> FALSE])

\* the nodes of the issue elements the UI shows: the issues of the last
\* check-results message
ShownIssueNodes ==
    IF outbox = << >> THEN {}
    ELSE {outbox[Len(outbox)].results.issues[k].nodeId :
            k \in 1..Len(outbox[Len(outbox)].results.issues)}

\* 'focus-node': an issue element of the UI is clicked
onFocusNode(nodeId) ==
    /\ running = NoRun
    /\ nodeId \in ShownIssueNodes
    /\ getNodeByIdAsync(nodeId, "focus-node")
    /\ UNCHANGED <<config, stored, selection, selEvent, results, running, lookups,
                   outbox, pluginData, calls, grid, importing, lastOp, exportPreview,
                   thisDefaultConfig, shared, viewport>>

\* the 'Go to node' button of the notification notifyIssue raised for the
\* first issue of the selectionchange evaluation e
onGoToNode(e) ==
    /\ running = NoRun
    /\ e \in 1..Len(calls)
    /\ calls[e].caller = "selectionchange"
    /\ calls[e].returned
    /\ ~calls[e].retPassed
    /\ calls[e].retLen > 0
    /\ getNodeByIdAsync(results[e].issues[1].nodeId, "go-to-node")
    /\ UNCHANGED <<config, stored, selection, selEvent, results, running, lookups,
                   outbox, pluginData, calls, grid, importing, lastOp, exportPreview,
                   thisDefaultConfig, shared, viewport>>

\* what getNodeByIdAsync can do for a node id: resolve to the node, resolve
\* to null (the document has no node of this id any more), or reject
FocusOutcomes == {"node", "null", "rejected"}

\* the promise of a focus is settled: the then callback selects the node
\* and scrolls to it when it got a node that is no page and no document,
\* and the catch callback raises the notification
completeFocus(i, outcome) ==
    /\ running = NoRun
    /\ i \in 1..Len(focuses)
    /\ focuses[i].status = "pending"
    /\ LET id == focuses[i].nodeId
           found == outcome = "node" /\ Nodes[id].type \notin {"PAGE", "DOCUMENT"}
       IN  /\ selection' = IF found THEN <<id>> ELSE selection
           /\ selEvent' = IF found /\ selection # <<id>> THEN TRUE ELSE selEvent
           /\ viewport' = IF found THEN id ELSE viewport
    /\ focuses' = [focuses EXCEPT ![i].status = outcome,
                                  ![i].notified = (outcome = "rejected")]
    /\ UNCHANGED <<config, stored, results, running, lookups, outbox, pluginData,
                   calls, grid, importing, lastOp, exportPreview,
                   thisDefaultConfig, shared>>

\* saveConfigToDocument that writes only when the document has no blob yet
saveConfigToDocumentOnce(cfg) ==
    stored' = IF stored = NoBlob THEN Serialize(cfg) ELSE stored

saveConfigToDocument(cfg) == stored' = Serialize(cfg)

\* updateConfig(newConfig)
updateConfig(newConfig) ==
    /\ config' = deepMerge(<< >>, config, newConfig)
    /\ thisDefaultConfig' = deepMergeWrites(<< >>, thisDefaultConfig, config, newConfig)
    /\ shared' = deepMergeShares(config, newConfig)
    /\ saveConfigToDocument(config')

\* 'update-config' with msg.config = partial
onUpdateConfig(partial) ==
    /\ running = NoRun
    /\ updateConfig(partial)
    /\ lastOp' = [op |-> "update-config", arg |-> partial,
                   duringImport |-> importing > 0]
    /\ UNCHANGED <<selection, selEvent, results, running, lookups, outbox, pluginData,
                   calls, grid, importing, exportPreview>>
    /\ UNCHANGED <<focuses, viewport>>

\* resetToDefaultConfig()
resetToDefaultConfig ==
    /\ config' = thisDefaultConfig
    /\ saveConfigToDocument(config')
    /\ shared' = SharedPaths
    /\ UNCHANGED thisDefaultConfig

\* 'reset-config'
onResetConfig ==
    /\ running = NoRun
    /\ resetToDefaultConfig
    /\ lastOp' = [op |-> "reset-config"]
    /\ UNCHANGED <<selection, selEvent, results, running, lookups, outbox, pluginData,
                   calls, grid, importing, exportPreview>>
    /\ UNCHANGED <<focuses, viewport>>

\* 'export-config': the export-config-data message is posted, and the UI
\* puts its text into the export-preview element
onExportConfig ==
    /\ running = NoRun
    /\ exportPreview' = exportCurrentConfig(config)
    /\ UNCHANGED <<config, stored, selection, selEvent, results, running, lookups,
                   outbox, pluginData, calls, grid, importing, lastOp>>
    /\ UNCHANGED <<thisDefaultConfig, shared, focuses, viewport>>

\* 'import-from-team-library': importConfigFromTeamLibrary runs up to its await
onImportFromTeamLibrary ==
    /\ running = NoRun
    /\ importing < MaxImports
    /\ importing' = importing + 1
    /\ UNCHANGED <<config, stored, selection, selEvent, results, running, lookups,
                   outbox, pluginData, calls, grid, lastOp, exportPreview>>
    /\ UNCHANGED <<thisDefaultConfig, shared, focuses, viewport>>

\* a completion that would save the configuration it finds instead of
\* assigning the default one
importConfigFromTeamLibraryMerging ==
    /\ running = NoRun
    /\ importing > 0
    /\ importing' = importing - 1
    /\ config' = config
    /\ saveConfigToDocument(config')
    /\ lastOp' = [op |-> "import-from-team-library",
                   overUpdate |-> lastOp.op = "update-config" /\ lastOp.duringImport]
    /\ UNCHANGED <<selection, selEvent, results, running, lookups, outbox, pluginData,
                   calls, grid, exportPreview>>
    /\ UNCHANGED <<focuses, viewport, shared, thisDefaultConfig>>

\* the timer an importConfigFromTeamLibrary call waits for has fired: the
\* rest of the function runs
importConfigFromTeamLibrary ==
    /\ running = NoRun
    /\ importing > 0
    /\ importing' = importing - 1
    /\ config' = thisDefaultConfig
    /\ saveConfigToDocument(config')
    /\ lastOp' = [op |-> "import-from-team-library",
                   overUpdate |-> lastOp.op = "update-config" /\ lastOp.duringImport]
    /\ UNCHANGED <<selection, selEvent, results, running, lookups, outbox, pluginData,
                   calls, grid, exportPreview>>
    /\ UNCHANGED <<focuses, viewport>>
    /\ shared' = SharedPaths
    /\ UNCHANGED thisDefaultConfig

----------------------------------------------------------------------------
(* Handlers of the UI that post an update-config message.  The handler and *)
(* the delivery of its message to the plugin are one step.                 *)

\* what the plugin receives for a RegExp in a message of the UI: the
\* RegExp, or the plain object {} that is left of it
Deliveries == {"RegExp", "object"}

Delivered(pattern, delivery) ==
    IF delivery = "RegExp" THEN pattern ELSE PlainObject("")

\* the change handler of the frame-pattern, component-pattern or
\* layer-pattern field (name says which) with the field's text
onPatternChange(name, text, delivery) ==
    /\ NewRegExp(text, "") # SyntaxError
    /\ onUpdateConfig([naming |->
            [patterns |-> (name :> Delivered(NewRegExp(text, ""), delivery))]])

\* the texts typed into a number field of the editor
NumberTexts == {"4", "4.5", "0", "-8"}

\* parseInt(text) for the texts of the model
parseInt ==
    [text \in NumberTexts |->
        CASE text = "4" -> 4
          [] text = "4.5" -> 4
          [] text = "0" -> 0
          [] text = "-8" -> 0 - 8]

\* the change handler of the color-tolerance field
onColorToleranceChange(text) ==
    onUpdateConfig([colors |-> [tolerance |-> parseInt[text]]])

\* the change handler of the base-unit field
onBaseUnitChange(text) ==
    onUpdateConfig([spacing |-> [baseUnit |-> parseInt[text]]])

\* the change handler of the spacing-tolerance field
onSpacingToleranceChange(text) ==
    onUpdateConfig([spacing |-> [tolerancePercent |-> parseInt[text]]])

\* the change handler of the min-touch-size field
onMinTouchSizeChange(text) ==
    onUpdateConfig([accessibility |-> [interactiveElementMinSize |-> parseInt[text]]])

\* the click handler of import-manual-btn with the text of the import-config
\* field: JSON.parse(text) is posted, or the SyntaxError is caught
onImportManual(text) ==
    /\ text # BadJson
    /\ onUpdateConfig(text)

----------------------------------------------------------------------------
(* The plugin is closed and run again on the same document: main() builds  *)
(* a new DesignStandardsChecker, and nothing of the old session is left    *)
(* but the document and its plugin data.                                   *)

pluginStart ==
    /\ running = NoRun
    /\ config' = constructor(stored)
    /\ lastOp' = Constructed
    /\ importing' = 0
    /\ selEvent' = FALSE
    /\ results' = << >>
    /\ lookups' = << >>
    /\ outbox' = << >>
    /\ calls' = << >>
    /\ exportPreview' = NoText
    /\ UNCHANGED <<stored, selection, running, pluginData, grid>>
    /\ shared' = constructorShares(stored)
    /\ thisDefaultConfig' = defaultConfig
    /\ focuses' = << >>
    /\ UNCHANGED viewport

----------------------------------------------------------------------------
(* Completion of a style lookup started by checkTypography *)

\* what getStyleByIdAsync can do for a style id: resolve to the style,
\* resolve to null (no such style), or reject
Outcomes == {"resolved", "null", "rejected"}

\* a completion that posts the result it has written to as a check-results
\* message
completeLookupAndShow(i, outcome) ==
    /\ running = NoRun
    /\ i \in 1..Len(lookups)
    /\ lookups[i].status = "pending"
    /\ LET l == lookups[i]
           textStyle == IF outcome = "resolved"
                           THEN StyleNames[Nodes[l.node].textStyleId] ELSE NoStyle
       IN  /\ results' = [results EXCEPT ![l.eval] =
                            IF outcome = "rejected"
                               THEN lookupRejected(l.node, @)
                               ELSE lookupResolved(l.node, @, textStyle)]
           /\ showResults(results'[l.eval], l.eval)
    /\ lookups' = [lookups EXCEPT ![i].status = outcome,
                                  ![i].textStyles = config.typography.textStyles]
    /\ UNCHANGED <<config, stored, selection, selEvent, running, pluginData,
                   calls, grid, importing, lastOp, exportPreview>>
    /\ UNCHANGED <<thisDefaultConfig, shared, focuses, viewport>>

\* lookups[i].textStyles records the typography.textStyles the callback
\* read, and lookups[i].atCall what they were when checkTypography called
\* getStyleByIdAsync
completeLookup(i, outcome) ==
    /\ running = NoRun
    /\ i \in 1..Len(lookups)
    /\ lookups[i].status = "pending"
    /\ LET l == lookups[i]
           textStyle == IF outcome = "resolved"
                           THEN StyleNames[Nodes[l.node].textStyleId] ELSE NoStyle
       IN  results' = [results EXCEPT ![l.eval] =
                         IF outcome = "rejected"
                            THEN lookupRejected(l.node, @)
                            ELSE lookupResolved(l.node, @, textStyle)]
    /\ lookups' = [lookups EXCEPT ![i].status = outcome,
                                  ![i].textStyles = config.typography.textStyles]
    /\ UNCHANGED <<config, stored, selection, selEvent, running, outbox, pluginData,
                   calls, grid, importing, lastOp, exportPreview>>
    /\ UNCHANGED <<thisDefaultConfig, shared, focuses, viewport>>

----------------------------------------------------------------------------
(* Inputs *)

Selections == {<< >>, <<"R", "B">>} \cup {<<id>> : id \in Selectable}

Partials ==
    {[typography |-> [textStyles |-> <<"Heading", "Body", "Caption", "Button", "Display">>]]}

\* the texts put into the import-config field: the text of the
\* export-preview element, the text exported from the default
\* configuration, and a text that is no JSON
PastedTexts ==
    (IF exportPreview = NoText THEN {} ELSE {exportPreview})
    \cup {exportCurrentConfig(defaultConfig), BadJson}

Next ==
    \/ \E deep \in BOOLEAN : onRunCheck(deep)
    \/ onCheckReadyForDev
    \/ \E sel \in Selections : hostSelect(sel)
    \/ onSelectionChange
    \/ \E partial \in Partials : onUpdateConfig(partial)
    \/ onResetConfig
    \/ processNode
    \/ handlerReturn
    \/ \E i \in 1..Len(lookups), outcome \in Outcomes : completeLookup(i, outcome)

Spec == Init /\ [][Next]_vars

\* the text nodes checkTypography starts a lookup for
StyledTextNodes == {id \in NodeIds : startsLookup(id)}

\* a call of runAllChecks visits a node at most once, so it starts at most
\* one lookup per styled text node
LookupSlots == 1..(MaxEvals * Cardinality(StyledTextNodes))

\* The plugin is started with nothing or with one frame selected, and the
\* selection is left alone; checks are run from the UI while the
\* configuration is edited.
LiveInit ==
    /\ config = defaultConfig
    /\ stored = NoBlob
    /\ selection \in {<< >>, <<"R">>}
    /\ selEvent = FALSE
    /\ results = << >>
    /\ running = NoRun
    /\ lookups = << >>
    /\ outbox = << >>
    /\ pluginData = [id \in NodeIds |-> NoData]
    /\ calls = << >>
    /\ grid = NoProbe
    /\ importing = 0
    /\ lastOp = Constructed
    /\ exportPreview = NoText
    /\ thisDefaultConfig = defaultConfig
    /\ shared = constructorShares(stored)
    /\ focuses = << >>
    /\ viewport = NoNode

LiveNext ==
    \/ \E deep \in BOOLEAN : onRunCheck(deep)
    \/ \E partial \in Partials : onUpdateConfig(partial)
    \/ onResetConfig
    \/ processNode
    \/ handlerReturn
    \/ \E i \in 1..Len(lookups), outcome \in Outcomes : completeLookup(i, outcome)

\* A handler runs to its end once started, and every lookup started
\* completes (the promise settles and its callback is run).
LiveSpec ==
    /\ LiveInit
    /\ [][LiveNext]_vars
    /\ WF_vars(processNode)
    /\ WF_vars(handlerReturn)
    /\ \A i \in LookupSlots : WF_vars(\E outcome \in Outcomes : completeLookup(i, outcome))

----------------------------------------------------------------------------
(* The configuration on its own: a session in which the standards are      *)
(* edited, imported, exported and reset, and the plugin is closed and run  *)
(* again.  The plugin data of the document is whatever an earlier session  *)
(* left there.                                                             *)

\* a blob with one naming pattern replaced
BlobWith(name, value) ==
    [Serialize(defaultConfig) EXCEPT !.naming.patterns[name] = value]

InitialBlobs ==
    {NoBlob, BadJson, Serialize(defaultConfig),
     BlobWith("frames", Str("/^[A-Z].*$/i")),
     BlobWith("frames", Str("^[A-Z]+$")),
     BlobWith("layers", Str("/(/")),
     BlobWith("components", Str("/^[a-z]+$/gg"))}

ConfigInit ==
    /\ stored \in InitialBlobs
    /\ config = constructor(stored)
    /\ selection = << >>
    /\ selEvent = FALSE
    /\ results = << >>
    /\ running = NoRun
    /\ lookups = << >>
    /\ outbox = << >>
    /\ pluginData = [id \in NodeIds |-> NoData]
    /\ calls = << >>
    /\ grid = NoProbe
    /\ importing = 0
    /\ lastOp = Constructed
    /\ exportPreview = NoText
    /\ thisDefaultConfig = defaultConfig
    /\ shared = constructorShares(stored)
    /\ focuses = << >>
    /\ viewport = NoNode

ConfigPartials == Partials

PatternTexts == {"^[A-Z].*$", "("}

ConfigNext ==
    \/ \E partial \in ConfigPartials : onUpdateConfig(partial)
    \/ \E name \in PatternNames, text \in PatternTexts, delivery \in Deliveries :
          onPatternChange(name, text, delivery)
    \/ \E text \in PastedTexts : onImportManual(text)
    \/ onResetConfig
    \/ onImportFromTeamLibrary
    \/ importConfigFromTeamLibrary
    \/ onExportConfig
    \/ pluginStart

ConfigSpec == ConfigInit /\ [][ConfigNext]_vars

----------------------------------------------------------------------------
(* Focusing the node of an issue: checks of the selection and of the page  *)
(* fill the issue list of the UI and raise the notifications whose issue   *)
(* is then clicked.                                                        *)

FocusSelections == {<<"F">>, <<"B">>}

FocusNext ==
    \/ onRunCheck(FALSE)
    \/ \E sel \in FocusSelections : hostSelect(sel)
    \/ onSelectionChange
    \/ processNode
    \/ handlerReturn
    \/ \E nodeId \in NodeIds : onFocusNode(nodeId)
    \/ \E e \in 1..Len(calls) : onGoToNode(e)
    \/ \E i \in 1..Len(focuses), outcome \in FocusOutcomes : completeFocus(i, outcome)

FocusSpec == Init /\ [][FocusNext]_vars

----------------------------------------------------------------------------
(* The number fields of the editor: whatever is typed into them is parsed  *)
(* and posted; the standards are reset in between.                         *)

NumericNext ==
    \/ \E text \in NumberTexts : onColorToleranceChange(text)
    \/ \E text \in NumberTexts : onBaseUnitChange(text)
    \/ \E text \in NumberTexts : onSpacingToleranceChange(text)
    \/ \E text \in NumberTexts : onMinTouchSizeChange(text)
    \/ onResetConfig

NumericSpec == Init /\ [][NumericNext]_vars

----------------------------------------------------------------------------
(* The calls of updateConfig on their own: the editor's updates, its       *)
(* pattern edits and a manual import, with resets in between, on every     *)
(* configuration the constructor can load.                                 *)

MergeNext ==
    \/ \E partial \in ConfigPartials : onUpdateConfig(partial)
    \/ \E name \in PatternNames, text \in PatternTexts, delivery \in Deliveries :
          onPatternChange(name, text, delivery)
    \/ onImportManual(exportCurrentConfig(defaultConfig))
    \/ onResetConfig

MergeSpec == ConfigInit /\ [][MergeNext]_vars

----------------------------------------------------------------------------
(* Checks run on a document whose plugin data an earlier session left: no  *)
(* blob, or a blob whose frames pattern is the text of a pattern without   *)
(* the slashes of the encoding.  The standards are imported by hand and    *)
(* reset in between.                                                       *)

CheckInit ==
    /\ stored \in {NoBlob, BlobWith("frames", Str("^[A-Z]+$"))}
    /\ config = constructor(stored)
    /\ selection \in {<< >>, <<"F">>}
    /\ selEvent = FALSE
    /\ results = << >>
    /\ running = NoRun
    /\ lookups = << >>
    /\ outbox = << >>
    /\ pluginData = [id \in NodeIds |-> NoData]
    /\ calls = << >>
    /\ grid = NoProbe
    /\ importing = 0
    /\ lastOp = Constructed
    /\ exportPreview = NoText
    /\ thisDefaultConfig = defaultConfig
    /\ shared = constructorShares(stored)
    /\ focuses = << >>
    /\ viewport = NoNode

CheckNext ==
    \/ \E deep \in BOOLEAN : onRunCheck(deep)
    \/ onImportManual(exportCurrentConfig(defaultConfig))
    \/ onResetConfig
    \/ processNode
    \/ handlerReturn
    \/ \E i \in 1..Len(lookups), outcome \in Outcomes : completeLookup(i, outcome)

CheckSpec == CheckInit /\ [][CheckNext]_vars

----------------------------------------------------------------------------
(* Checks repeated on an unchanged configuration: the default one, or the  *)
(* one loaded from a blob whose frames pattern has the g flag (a JSON text *)
(* with that pattern was imported by hand in an earlier session, and       *)
(* saved as it was).                                                       *)

RepeatInit ==
    /\ stored \in {NoBlob, BlobWith("frames", Str("/^[A-Z][a-z]+ - [a-z0-9-_]+$/g"))}
    /\ config = constructor(stored)
    /\ selection \in {<< >>, <<"F">>}
    /\ selEvent = FALSE
    /\ results = << >>
    /\ running = NoRun
    /\ lookups = << >>
    /\ outbox = << >>
    /\ pluginData = [id \in NodeIds |-> NoData]
    /\ calls = << >>
    /\ grid = NoProbe
    /\ importing = 0
    /\ lastOp = Constructed
    /\ exportPreview = NoText
    /\ thisDefaultConfig = defaultConfig
    /\ shared = constructorShares(stored)
    /\ focuses = << >>
    /\ viewport = NoNode

RepeatNext ==
    \/ \E deep \in BOOLEAN : onRunCheck(deep)
    \/ processNode
    \/ handlerReturn
    \/ \E i \in 1..Len(lookups), outcome \in Outcomes : completeLookup(i, outcome)

RepeatSpec == RepeatInit /\ [][RepeatNext]_vars

----------------------------------------------------------------------------
(* isOnGrid on its own: the configuration's spacing and the value are the  *)
(* inputs.  checkSpacing calls isOnGrid on a node's x, y, width, height    *)
(* and paddings, which the document leaves free (a position is negative    *)
(* for a node left of or above its parent's origin).                       *)

BaseUnits == {4, 8, 10}

TolerancePercents == {0, 5, 25}

GridValues == (0 - GridRange)..GridRange

GridInit ==
    /\ \E b \in BaseUnits, t \in TolerancePercents :
          config = [defaultConfig EXCEPT !.spacing =
                        [baseUnit |-> b, tolerancePercent |-> t]]
    /\ stored = NoBlob
    /\ selection = << >>
    /\ selEvent = FALSE
    /\ results = << >>
    /\ running = NoRun
    /\ lookups = << >>
    /\ outbox = << >>
    /\ pluginData = [id \in NodeIds |-> NoData]
    /\ calls = << >>
    /\ grid = NoProbe
    /\ importing = 0
    /\ lastOp = Constructed
    /\ exportPreview = NoText
    /\ thisDefaultConfig = defaultConfig
    /\ shared = constructorShares(stored)
    /\ focuses = << >>
    /\ viewport = NoNode

\* a call this.isOnGrid(value) as checkSpacing makes it
callIsOnGrid(value) ==
    /\ grid' = [called |-> TRUE, value |-> value, onGrid |-> isOnGrid(value)]
    /\ UNCHANGED <<config, stored, selection, selEvent, results, running, lookups,
                   outbox, pluginData, calls, importing, lastOp, exportPreview>>
    /\ UNCHANGED <<thisDefaultConfig, shared, focuses, viewport>>

GridNext == \E value \in GridValues : callIsOnGrid(value)

GridSpec == GridInit /\ [][GridNext]_vars

----------------------------------------------------------------------------
(* The tree as the claims see it *)

RECURSIVE PreOrder(_)
RECURSIVE PreOrderAll(_)

\* the nodes of a subtree, a node before its children, children in document order
PreOrder(id) == <<id>> \o PreOrderAll(Nodes[id].children)

PreOrderAll(ids) ==
    IF ids = << >> THEN << >> ELSE PreOrder(Head(ids)) \o PreOrderAll(Tail(ids))

RECURSIVE Descendants(_)

\* the set of nodes strictly below a node
Descendants(id) ==
    LET kids == Elems(Nodes[id].children)
    IN  kids \cup UNION {Descendants(k) : k \in kids}

SubtreeOf == [id \in NodeIds |-> {id} \cup Descendants(id)]

Subtree(id) == SubtreeOf[id]

PreOrderOf == [id \in NodeIds |-> PreOrder(id)]

NoDuplicates(seq) == \A i, j \in 1..Len(seq) : i # j => seq[i] # seq[j]

\* the position of a node in the pre-order of the subtree of root
PositionIn ==
    [root \in NodeIds |->
        [id \in SubtreeOf[root] |->
            CHOOSE k \in 1..Len(PreOrderOf[root]) : PreOrderOf[root][k] = id]]

Position(root, id) == PositionIn[root][id]

CheckerRank(category) ==
    CASE category = "color" -> 1
      [] category = "typography" -> 2
      [] category = "spacing" -> 3
      [] category = "components" -> 4
      [] category = "naming" -> 5
      [] category = "accessibility" -> 6

Evals == 1..Len(results)

\* runAllChecks number e is at its return statement
AtReturn(e) == running # NoRun /\ running.eval = e /\ running.todo = << >>

\* the issues a style lookup can add for a node
LookupMessages(id) ==
    {StyleErrorMessage(id)} \cup {StyleNameMessage(id, StyleNames[s]) : s \in DOMAIN StyleNames}

IsLookupMessage(issue) == issue.message \in LookupMessages(issue.nodeId)

----------------------------------------------------------------------------
(* C1: in every state of every CheckResults object (while the traversal    *)
(* runs, when runAllChecks returns, after a late lookup issue) passed is   *)
(* true exactly when issues is empty.                                      *)
C1_PassedIffNoIssues ==
    \A e \in Evals : results[e].passed <=> (results[e].issues = << >>)

\* a result that got a late issue from a rejected lookup, next to a result
\* that passed after visiting nodes
C1_Witness ==
    /\ \E i \in 1..Len(lookups) :
          /\ lookups[i].status = "rejected"
          /\ ~results[lookups[i].eval].passed
          /\ Len(results[lookups[i].eval].issues) = 1
    /\ \E e \in Evals : calls[e].returned /\ results[e].passed

(* C2: in every state of every CheckResults object stats.issuesFound is    *)
(* the length of issues, and categoryCounts has a key exactly for the      *)
(* categories with at least one issue, its value the number of issues of   *)
(* that category.                                                          *)
C2_StatsMatchIssues ==
    \A e \in Evals :
        LET res == results[e]
            ofCategory(c) == {k \in 1..Len(res.issues) : res.issues[k].category = c}
        IN  /\ res.stats.issuesFound = Len(res.issues)
            /\ DOMAIN res.stats.categoryCounts = {c \in Categories : ofCategory(c) # {}}
            /\ \A c \in DOMAIN res.stats.categoryCounts :
                  res.stats.categoryCounts[c] = Cardinality(ofCategory(c))

\* a result with several issues in one category, only one in another, none in a third
C2_Witness ==
    \E e \in Evals :
        LET counts == results[e].stats.categoryCounts
        IN  /\ "typography" \in DOMAIN counts /\ counts["typography"] >= 3
            /\ "color" \in DOMAIN counts /\ counts["color"] = 2
            /\ calls[e].returned
            /\ Len(results[e].issues) > calls[e].retLen

(* C3: runAllChecks visits the root alone when deep is false, and every    *)
(* node of the root's subtree exactly once when deep is true;              *)
(* stats.nodesChecked is the number of nodes visited: 1, or the size of    *)
(* the subtree.                                                            *)
C3_VisitsSubtreeOnce ==
    \A e \in Evals :
        LET call == calls[e]
            expected == IF call.deep THEN Subtree(call.root) ELSE {call.root}
        IN  /\ NoDuplicates(call.visited)
            /\ results[e].stats.nodesChecked = Len(call.visited)
            /\ Elems(call.visited) \subseteq expected
            /\ call.returned =>
                  /\ Elems(call.visited) = expected
                  /\ results[e].stats.nodesChecked = Cardinality(expected)

\* a deep check of the whole page and a shallow check of a frame with
\* children have both returned
C3_Witness ==
    /\ \E e \in Evals :
          /\ calls[e].returned /\ calls[e].deep /\ calls[e].root = "P"
          /\ results[e].stats.nodesChecked = 9
    /\ \E e \in Evals :
          /\ calls[e].returned /\ ~calls[e].deep /\ calls[e].root = "F"
          /\ results[e].stats.nodesChecked = 1

(* C4: the issues a result holds when runAllChecks returns are in          *)
(* discovery order: by node in pre-order, and within a node by checker in  *)
(* the order color, typography, spacing, components, naming,               *)
(* accessibility.                                                          *)
C4_DiscoveryOrder ==
    \A e \in Evals :
        LET res == results[e]
            n == IF calls[e].returned THEN calls[e].retLen ELSE Len(res.issues)
            pos(k) == Position(calls[e].root, res.issues[k].nodeId)
        IN  \A i, j \in 1..n :
                i < j =>
                    \/ pos(i) < pos(j)
                    \/ /\ pos(i) = pos(j)
                       /\ CheckerRank(res.issues[i].category)
                            <= CheckerRank(res.issues[j].category)

\* a deep check of the page has returned with issues of several nodes and
\* of several checkers on one node
C4_Witness ==
    \E e \in Evals :
        /\ calls[e].returned /\ calls[e].deep /\ calls[e].root = "P"
        /\ \E i, j \in 1..calls[e].retLen :
              /\ results[e].issues[i].nodeId = "B"
              /\ results[e].issues[j].nodeId = "B"
              /\ results[e].issues[i].category = "color"
              /\ results[e].issues[j].category = "accessibility"
        /\ \E i \in 1..calls[e].retLen : results[e].issues[i].nodeId = "T3"

\* the issues the six checkers give for one node
NodeIssues(id) == visitNode(id, NewResults).issues

RECURSIVE IssuesOf(_)

IssuesOf(ids) ==
    IF ids = << >> THEN << >> ELSE NodeIssues(Head(ids)) \o IssuesOf(Tail(ids))

(* C5: when runAllChecks returns, the result holds the issues of the       *)
(* checkers for all visited nodes (font-family and missing-style issues    *)
(* included), no style lookup has completed and the result holds no issue  *)
(* of a style lookup; every issue added after the return is a typography   *)
(* issue of a completed style lookup of that evaluation.                   *)
C5_SynchronousButStyleNames ==
    \A e \in Evals :
        LET res == results[e]
            call == calls[e]
        IN  /\ AtReturn(e) =>
                  /\ res.issues = IssuesOf(IF call.deep THEN PreOrderOf[call.root]
                                                        ELSE <<call.root>>)
                  /\ \A k \in 1..Len(res.issues) : ~IsLookupMessage(res.issues[k])
                  /\ \A i \in 1..Len(lookups) :
                        lookups[i].eval = e => lookups[i].status = "pending"
            /\ call.returned =>
                  \A k \in (call.retLen + 1)..Len(res.issues) :
                      /\ res.issues[k].category = "typography"
                      /\ IsLookupMessage(res.issues[k])
                      /\ \E i \in 1..Len(lookups) :
                            /\ lookups[i].eval = e
                            /\ lookups[i].node = res.issues[k].nodeId
                            /\ lookups[i].status \in {"resolved", "rejected"}

\* a deep check that returned with issues and a pending lookup, and got a
\* style-name issue afterwards
C5_Witness ==
    \E e \in Evals :
        /\ calls[e].returned
        /\ calls[e].retLen > 0
        /\ Len(results[e].issues) = calls[e].retLen + 1
        /\ \E i \in 1..Len(lookups) :
              lookups[i].eval = e /\ lookups[i].status = "resolved"

\* the lookup started for node id by evaluation e, when there is one
LookupsOf(e, id) == {i \in 1..Len(lookups) : lookups[i].eval = e /\ lookups[i].node = id}

HasIssue(e, category, message, id) ==
    \E k \in 1..Len(results[e].issues) :
        results[e].issues[k] = [category |-> category, message |-> message, nodeId |-> id]

\* lookup i resolved to a style whose name contains none of the textStyles
\* substrings configured when it completed
ResolvedNonStandard(i) ==
    /\ lookups[i].status = "resolved"
    /\ \A k \in 1..Len(lookups[i].textStyles) :
          ~Includes(StyleNames[Nodes[lookups[i].node].textStyleId], lookups[i].textStyles[k])

(* C6: when every style lookup completes, each visited text node with an   *)
(* assigned style has its lookup completed eventually, and if the style's  *)
(* name contains none of the textStyles substrings configured at that      *)
(* moment, the result of that evaluation then holds a typography issue     *)
(* for the node and its passed is false.                                   *)
C6_StyleNameIssueEventually ==
    \A e \in 1..MaxEvals : \A id \in StyledTextNodes :
        (e <= Len(calls) /\ id \in Elems(calls[e].visited))
            ~> (\E i \in LookupsOf(e, id) :
                    /\ lookups[i].status # "pending"
                    /\ ResolvedNonStandard(i) =>
                          /\ HasIssue(e, "typography",
                                StyleNameMessage(id, StyleNames[Nodes[id].textStyleId]), id)
                          /\ ~results[e].passed)

\* an evaluation that returned passed and whose lookup then resolved to a
\* non-standard style name
C6_Witness ==
    \E i \in 1..Len(lookups) :
        /\ ResolvedNonStandard(i)
        /\ calls[lookups[i].eval].returned
        /\ calls[lookups[i].eval].retPassed
        /\ ~results[lookups[i].eval].passed

(* C7: a rejected style lookup appends exactly one typography issue, for   *)
(* the node of the lookup, to the result of its evaluation, and changes    *)
(* nothing else: the other results, the other lookups, the traversal       *)
(* state and the rest of the session are as they were.                     *)
C7_RejectionIsOneIssue ==
    [][\A i \in LookupSlots :
          (i <= Len(lookups) /\ lookups[i].status = "pending"
              /\ lookups'[i].status = "rejected") =>
            LET l == lookups[i]
            IN  /\ results'[l.eval].issues =
                      Append(results[l.eval].issues,
                             [category |-> "typography",
                              message |-> StyleErrorMessage(l.node),
                              nodeId |-> l.node])
                /\ results'[l.eval].stats.nodesChecked = results[l.eval].stats.nodesChecked
                /\ Len(results') = Len(results)
                /\ \A e \in Evals : e # l.eval => results'[e] = results[e]
                /\ Len(lookups') = Len(lookups)
                /\ \A j \in 1..Len(lookups) : j # i => lookups'[j] = lookups[j]
                /\ UNCHANGED <<config, stored, selection, selEvent, running, outbox,
                               pluginData, calls>>]_vars

\* a lookup was rejected and its issue is in the result, while a later
\* evaluation has returned and its own lookup has resolved
C7_Witness ==
    \E i, j \in 1..Len(lookups) :
        /\ lookups[i].status = "rejected"
        /\ HasIssue(lookups[i].eval, "typography",
                    StyleErrorMessage(lookups[i].node), lookups[i].node)
        /\ lookups[j].eval > lookups[i].eval
        /\ calls[lookups[j].eval].returned
        /\ lookups[j].status = "resolved"

(* C8: once the lookup of a visited text node has completed without a      *)
(* style (it was rejected, or it resolved to no style), the result holds a *)
(* typography issue for that node.                                         *)
C8_NoStyleIsReported ==
    \A i \in 1..Len(lookups) :
        lookups[i].status \in {"rejected", "null"} =>
            \E k \in 1..Len(results[lookups[i].eval].issues) :
                /\ results[lookups[i].eval].issues[k].category = "typography"
                /\ results[lookups[i].eval].issues[k].nodeId = lookups[i].node

C10_Periodic ==
    grid.called => grid.onGrid = isOnGrid(grid.value + config.spacing.baseUnit)

(* C11: with tolerancePercent = 0 and a positive baseUnit, isOnGrid(v) is  *)
(* true exactly when v is an integer multiple of baseUnit, for every       *)
(* value a position, a size or a padding can take, negative positions      *)
(* included.                                                               *)
C11_MultiplesOnly ==
    (grid.called /\ config.spacing.tolerancePercent = 0) =>
        (grid.onGrid <=> \E k \in (0 - GridRange)..GridRange :
                            grid.value = k * config.spacing.baseUnit)

\* the evaluation in progress, whose checks all ran under the live configuration
Current == running.eval

\* the required names of a list that are a substring of no descendant's name
NotFound(id, required) ==
    {i \in 1..Len(required) :
        \A d \in SubtreeOf[id] \ {id} : ~Includes(Nodes[d].name, required[i])}

\* the 'missing required component' issues evaluation e holds for a node
MissingIssues(e, id) ==
    {k \in 1..Len(results[e].issues) :
        /\ results[e].issues[k].nodeId = id
        /\ results[e].issues[k].category = "components"
        /\ \E t \in DOMAIN config.components.requiredComponents :
              \E i \in 1..Len(config.components.requiredComponents[t]) :
                  results[e].issues[k].message =
                      Nodes[id].name \o " is missing required component: "
                          \o config.components.requiredComponents[t][i]}

\* the frame type of a node's name has required components configured
HasRequired(id) ==
    /\ getFrameType(Nodes[id].name) # NoFrameType
    /\ getFrameType(Nodes[id].name) \in DOMAIN config.components.requiredComponents

RequiredOf(id) == config.components.requiredComponents[getFrameType(Nodes[id].name)]

(* C12 as stated: for every visited node, of any kind, whose name maps to  *)
(* a frame type with required components configured, the number of         *)
(* 'missing required component' issues of the node is the number of        *)
(* required names that are a substring of no descendant's name.            *)
C12_MissingPerRequiredName ==
    running # NoRun =>
        \A id \in Elems(calls[Current].visited) :
            HasRequired(id) =>
                Cardinality(MissingIssues(Current, id))
                    = Cardinality(NotFound(id, RequiredOf(id)))

(* C12 amended: the same for every visited node of kind FRAME; a node of   *)
(* any other kind gets no 'missing required component' issue.              *)
C12_MissingPerRequiredNameOfFrames ==
    running # NoRun =>
        \A id \in Elems(calls[Current].visited) :
            IF Nodes[id].type = "FRAME" /\ HasRequired(id)
                THEN Cardinality(MissingIssues(Current, id))
                        = Cardinality(NotFound(id, RequiredOf(id)))
                ELSE MissingIssues(Current, id) = {}

\* a deep check has visited the screen frame, which has one of its two
\* required components below it, and the group named as a card
C12_Witness ==
    /\ running # NoRun
    /\ {"F", "G", "R"} \subseteq Elems(calls[Current].visited)
    /\ Cardinality(MissingIssues(Current, "F")) = 1
    /\ Cardinality(NotFound("F", RequiredOf("F"))) = 1
    /\ HasRequired("G")

\* the naming issues evaluation e holds for a node
NamingIssues(e, id) ==
    {k \in 1..Len(results[e].issues) :
        results[e].issues[k].nodeId = id /\ results[e].issues[k].category = "naming"}

\* the word a naming issue starts with for a node of this type
KindWord(type) ==
    CASE type = "FRAME" -> "Frame"
      [] type \in {"COMPONENT", "INSTANCE"} -> "Component"
      [] OTHER -> "Layer"

(* C13: each visited node is tested against one naming pattern, the one of *)
(* its kind (frame: frames; component or instance: components; any other   *)
(* kind: layers): it has a naming issue, worded for its kind, exactly when *)
(* that pattern does not match its name, and never two naming issues.      *)
C13_OnePatternPerNode ==
    running # NoRun =>
        \A id \in Elems(calls[Current].visited) :
            LET type == Nodes[id].type
                pattern == IF type = "FRAME" THEN config.naming.patterns.frames
                           ELSE IF type \in {"COMPONENT", "INSTANCE"}
                                    THEN config.naming.patterns.components
                                    ELSE config.naming.patterns.layers
            IN  /\ Cardinality(NamingIssues(Current, id)) <= 1
                /\ \A k \in NamingIssues(Current, id) :
                      results[Current].issues[k].message =
                          KindWord(type) \o " \"" \o Nodes[id].name
                              \o "\" doesn't follow naming convention"
                /\ isRegExp(pattern) =>
                      (NamingIssues(Current, id) = {}
                          <=> <<pattern.source, Nodes[id].name>> \in MatchPairs)

\* a deep check of the page has visited a frame, an instance and a text
\* whose names break their patterns, and a frame whose name follows it
C13_Witness ==
    /\ running # NoRun
    /\ calls[Current].root = "P"
    /\ \A id \in {"B", "N", "T3"} :
          id \in Elems(calls[Current].visited)
            /\ Cardinality(NamingIssues(Current, id)) = 1
    /\ NamingIssues(Current, "F") = {}
    /\ NamingIssues(Current, "T1") = {}

\* this step has assigned the configuration in an updateConfig call
UpdateStep ==
    /\ lastOp'.op = "update-config"
    /\ <<config, stored, lastOp>>' # <<config, stored, lastOp>>

RECURSIVE Merged(_, _, _)

\* the configuration C14 describes for the current value and the partial's
\* value at a key path: an object-valued field merged key by key, any other
\* value (a RegExp among them) in place of the current one
Merged(path, current, partial) ==
    IF path \in PatternKeys
        THEN IF partial.kind = "object" THEN current ELSE partial
    ELSE IF path \in ObjectKeys
        THEN [k \in DOMAIN current \cup DOMAIN partial |->
                IF k \notin DOMAIN partial THEN current[k]
                ELSE IF k \notin DOMAIN current THEN partial[k]
                ELSE Merged(Append(path, k), current[k], partial[k])]
    ELSE partial

(* C14: updateConfig(partial) leaves the configuration in which, at every  *)
(* key path the partial names, an object-valued field is merged key by key *)
(* with the current value and any other value (array, string, number,      *)
(* regular-expression pattern) has replaced the current value; every key   *)
(* the partial does not name keeps its value.                              *)
C14_MergeOrReplace ==
    [][UpdateStep => config' = Merged(<< >>, config, lastOp'.arg)]_vars

\* partial updates the editor's handlers post
EditorPartials ==
    ConfigPartials
    \cup {[spacing |-> [baseUnit |-> 4]], [spacing |-> [tolerancePercent |-> 10]],
          [components |-> [mustBeInstances |-> <<"Button">>]]}
    \cup {[naming |-> [patterns |-> (name :> Delivered(RegExp("^[A-Z].*$", ""), delivery))]] :
            name \in {"frames", "layers"}, delivery \in Deliveries}

RECURSIVE LeafPaths(_, _)

\* the key paths a partial names
LeafPaths(path, partial) ==
    IF path \in ObjectKeys
        THEN UNION {LeafPaths(Append(path, k), partial[k]) : k \in DOMAIN partial}
        ELSE {path}

RECURSIVE Both(_, _, _)

\* the partial that contains two partials of disjoint key paths
Both(path, A, B) ==
    [k \in DOMAIN A \cup DOMAIN B |->
        IF k \notin DOMAIN B THEN A[k]
        ELSE IF k \notin DOMAIN A THEN B[k]
        ELSE Both(Append(path, k), A[k], B[k])]

DisjointPairs ==
    {pair \in EditorPartials \X EditorPartials :
        LeafPaths(<< >>, pair[1]) \cap LeafPaths(<< >>, pair[2]) = {}}

(* C15: for the live configuration of every reachable state and any two    *)
(* partials A and B of disjoint key paths, updateConfig(A) followed by     *)
(* updateConfig(B) gives the configuration, and so the stored blob, that   *)
(* one updateConfig of the partial containing both gives.                  *)
C15_UpdatesOfDisjointKeysCombine ==
    \A pair \in DisjointPairs :
        deepMerge(<< >>, deepMerge(<< >>, config, pair[1]), pair[2])
            = deepMerge(<< >>, config, Both(<< >>, pair[1], pair[2]))

\* two updates of disjoint keys were made one after the other: the text
\* styles were extended and the frames pattern was edited last, on a
\* configuration that differs from the default in its other patterns too
C15_Witness ==
    /\ lastOp.op = "update-config"
    /\ "naming" \in DOMAIN lastOp.arg
    /\ DOMAIN lastOp.arg.naming.patterns = {"frames"}
    /\ Len(config.typography.textStyles) = 5
    /\ config.naming.patterns.layers # defaultConfig.naming.patterns.layers
    /\ stored = Serialize(config)

\* the three naming patterns of a configuration are RegExp objects
Executable(cfg) == \A k \in PatternNames : isRegExp(cfg.naming.patterns[k])

(* C16: when the text exportCurrentConfig gives for the live configuration *)
(* is parsed and passed to updateConfig (the manual import), the live      *)
(* configuration is afterwards equal to the one exported, its three naming *)
(* patterns RegExp objects of the same source and flags.                   *)
C16_ExportThenImportIsIdentity ==
    [][(UpdateStep /\ lastOp'.arg = exportCurrentConfig(config)) =>
            (config' = config /\ Executable(config'))]_vars

\* the operations that assign the configuration and save it
Mutations == {"update-config", "reset-config", "import-from-team-library"}

(* C17: when the plugin is started on the blob saveConfigToDocument wrote  *)
(* for the live configuration, loadConfigFromDocument gives a              *)
(* configuration equal to the saved one, its three naming patterns RegExp  *)
(* objects of the same source and flags.                                   *)
C17_SaveThenLoadIsIdentity ==
    [][(lastOp.op \in Mutations /\ lastOp'.op = "construct") =>
            (config' = config /\ Executable(config'))]_vars

\* the strings that encode a pattern: /source/flags with a source and
\* flags new RegExp accepts
WellFormedEncodings ==
    {"/^[A-Z][a-z]+ - [a-z0-9-_]+$/", "/^[A-Z][a-z]+ \\/ [A-Z][a-z]+$/",
     "/^[a-z][a-z0-9-_]+$/", "/^[A-Z].*$/i"}

\* the blob is no JSON text, or one of its naming patterns is a string
\* that is no well-formed encoding
Malformed(blob) ==
    \/ blob = BadJson
    \/ /\ blob # NoBlob
       /\ \E k \in PatternNames :
             /\ blob.naming.patterns[k].kind = "string"
             /\ blob.naming.patterns[k].value \notin WellFormedEncodings

(* C18: a session started on a blob that is no valid JSON, or that holds a *)
(* naming pattern string that is no well-formed pattern encoding, starts   *)
(* with the default configuration, not with a partially decoded one.       *)
C18_MalformedBlobGivesDefault ==
    (lastOp.op = "construct" /\ Malformed(stored)) => config = defaultConfig

(* C19: in every reachable state of the session each of the three naming   *)
(* patterns of the live configuration is a RegExp object.                  *)
C19_PatternsAreExecutable == Executable(config)

C22_MissingNodeIsNotified ==
    [][\A i \in 1..Len(focuses) :
          (/\ i <= Len(focuses')
           /\ focuses[i].status = "pending"
           /\ focuses'[i].status \in {"null", "rejected"})
          => /\ focuses'[i].notified
             /\ selection' = selection
             /\ viewport' = viewport]_vars

(* C23: in every state editor-initiated updates lead to, spacing.baseUnit  *)
(* is positive and spacing.tolerancePercent, colors.tolerance and          *)
(* accessibility.interactiveElementMinSize are not negative.               *)
C23_NumbersInRange ==
    /\ config.spacing.baseUnit > 0
    /\ config.spacing.tolerancePercent >= 0
    /\ config.colors.tolerance >= 0
    /\ config.accessibility.interactiveElementMinSize >= 0

\* the issues of the result of evaluation e as runAllChecks returned it
Returned(e) == SubSeq(results[e].issues, 1, calls[e].retLen)

(* C24: two calls of runAllChecks that have returned, on the same node and *)
(* with the same deep flag, with no change of the configuration by an      *)
(* update, a reset or an import in between, returned the same sequence of  *)
(* issues (a result holds no style-name issue when it is returned).        *)
C24_RepeatedCheckSameIssues ==
    \A e1, e2 \in 1..Len(calls) :
        (/\ calls[e1].returned
         /\ calls[e2].returned
         /\ calls[e1].root = calls[e2].root
         /\ calls[e1].deep = calls[e2].deep
         /\ lastOp = Constructed)
        => Returned(e1) = Returned(e2)

\* a step of an evaluation: runAllChecks is called, processNode visits a
\* node, or a style lookup completes (the step in which runAllChecks
\* returns belongs to the handler that called it)
EvaluationStep ==
    /\ ~(running # NoRun /\ running.todo = << >>)
    /\ \/ results' # results
       \/ calls' # calls
       \/ lookups' # lookups

(* C25: no step of runAllChecks and no completion of a style lookup        *)
(* changes the live configuration, the stored blob or the plugin data of   *)
(* a node.                                                                 *)
C25_EvaluationWritesOnlyResults ==
    [][EvaluationStep =>
          /\ config' = config
          /\ stored' = stored
          /\ pluginData' = pluginData]_vars

\* the 'check-ready-for-dev' evaluations that have marked their node
Marking ==
    {e \in 1..Len(calls) :
        /\ calls[e].caller = "check-ready-for-dev"
        /\ calls[e].returned
        /\ calls[e].retPassed
        /\ pluginData[calls[e].root].readyForDev = "true"}

(* C26: the result of an evaluation that has marked its node ready for dev *)
(* holds no issue, in any state after the marking: no style lookup of that *)
(* evaluation adds an issue to it later.                                   *)
C26_MarkedMeansNoIssue ==
    \A e \in Marking :
        /\ results[e].passed
        /\ results[e].issues = << >>

(* C27: every check-results message holds the issues its result had when   *)
(* runAllChecks returned it, none of them an issue of a style lookup, and  *)
(* it is the only message of its evaluation: nothing is posted when a      *)
(* style lookup adds its issue later.                                      *)
C27_MessagesAreReturnSnapshots ==
    \A k \in 1..Len(outbox) :
        LET e == outbox[k].eval
            sent == outbox[k].results.issues
        IN  /\ calls[e].returned
            /\ sent = Returned(e)
            /\ \A j \in 1..Len(sent) : ~IsLookupMessage(sent[j])
            /\ \A k2 \in 1..Len(outbox) : outbox[k2].eval = e => k2 = k

\* a result was posted with its issues, and a lookup that resolved later
\* has added a style-name issue that no message holds
C27_Witness ==
    \E k \in 1..Len(outbox), i \in 1..Len(lookups) :
        /\ lookups[i].eval = outbox[k].eval
        /\ lookups[i].status = "resolved"
        /\ Len(outbox[k].results.issues) > 0
        /\ Len(results[outbox[k].eval].issues) = Len(outbox[k].results.issues) + 1
        /\ IsLookupMessage(results[outbox[k].eval].issues[Len(results[outbox[k].eval].issues)])

\* the style name contains none of these text styles
NonStandard(name, textStyles) ==
    \A k \in 1..Len(textStyles) : ~Includes(name, textStyles[k])

(* C28: when a style lookup resolves to a style, the evaluation's result   *)
(* gets the style-name issue of the node in that step exactly when the     *)
(* style's name contains none of typography.textStyles of the live         *)
(* configuration of that step, whatever the configuration was when         *)
(* runAllChecks was called; otherwise the result is left as it is.         *)
C28_LookupReadsLiveTextStyles ==
    [][\A i \in 1..Len(lookups) :
          (/\ i <= Len(lookups')
           /\ lookups[i].status = "pending"
           /\ lookups'[i].status = "resolved")
          => LET e == lookups[i].eval
                 id == lookups[i].node
                 name == StyleNames[Nodes[id].textStyleId]
             IN  results'[e] =
                    IF NonStandard(name, config.typography.textStyles)
                        THEN addIssue(results[e], "typography",
                                      StyleNameMessage(id, name), id)
                        ELSE results[e]]_vars

\* a lookup was started under text styles that do not hold the style's
\* name, the text styles were updated after runAllChecks had returned, and
\* the lookup then resolved and added no issue
C28_Witness ==
    \E i \in 1..Len(lookups) :
        LET e == lookups[i].eval
            name == StyleNames[Nodes[lookups[i].node].textStyleId]
        IN  /\ lookups[i].status = "resolved"
            /\ calls[e].returned
            /\ NonStandard(name, lookups[i].atCall)
            /\ ~NonStandard(name, lookups[i].textStyles)
            /\ lastOp.op = "update-config"
            /\ ~HasIssue(e, "typography", StyleNameMessage(lookups[i].node, name),
                         lookups[i].node)

\* this step is the rest of an importConfigFromTeamLibrary call, run after
\* its timer has fired
ImportCompletes ==
    /\ importing' = importing - 1
    /\ lastOp'.op = "import-from-team-library"

Marked(n) == pluginData[n].readyForDev = "true"

\* this step is the selectionchange handler, run with only the marked node n
\* selected
MarkedSelectionChange(n) ==
    /\ selEvent /\ ~selEvent'
    /\ selection = <<n>>
    /\ Marked(n)

(* C30: no step clears the readyForDev marker of a node, and a             *)
(* selectionchange handler run while only a marked node is selected starts *)
(* no evaluation and posts no check-results message.                       *)
C30_MarkedNodeIsSkipped ==
    [][\A n \in DOMAIN pluginData :
          /\ Marked(n) => pluginData'[n].readyForDev = "true"
          /\ MarkedSelectionChange(n) =>
                UNCHANGED <<results, calls, running, outbox>>]_vars

\* node n was marked, another node was then selected and evaluated by the
\* selectionchange handler, n was selected again and its selectionchange
\* event has been handled: no evaluation of n was added
C30_Witness ==
    \E n \in DOMAIN pluginData :
        /\ Marked(n)
        /\ selection = <<n>>
        /\ ~selEvent
        /\ running = NoRun
        /\ Len(calls) > 1
        /\ calls[Len(calls)].caller = "selectionchange"
        /\ calls[Len(calls)].root # n
        /\ \E e \in 1..Len(calls) - 1 :
              calls[e].caller = "check-ready-for-dev" /\ calls[e].root = n

====
